---- MODULE Spec2Model ----
(***************************************************************************)
(* Model of the two batch converters of genomics_scripts:                  *)
(*   02_python_script_used_to_convert_vcf_to_tab.py            (extractor) *)
(*   02_python_script_used_to_calculate_allele_freq_fromtabfiles.py        *)
(*                                                            (calculator) *)
(* A Python str is a sequence of one-character strings.  A text file is    *)
(* the sequence of its lines, each without its terminating newline; the    *)
(* iteration "for line in f" hands each of them back with the newline.     *)
(***************************************************************************)
EXTENDS Integers, Sequences, FiniteSets, TLC

TAB == "\t"
NL == "\n"
SP == " "

\* Characters str.strip() removes and int() tolerates around a number.
Whitespace == {SP, TAB, NL, "\r"}

Digits == <<"0", "1", "2", "3", "4", "5", "6", "7", "8", "9">>

IsDigit(c) == \E i \in 1..10 : Digits[i] = c

DigitVal(c) == (CHOOSE i \in 1..10 : Digits[i] = c) - 1

Range(s) == {s[i] : i \in 1..Len(s)}

Front(s) == SubSeq(s, 1, Len(s) - 1)

Last(s) == s[Len(s)]

\* s.startswith(p)
StartsWith(s, p) == Len(s) >= Len(p) /\ SubSeq(s, 1, Len(p)) = p

\* s.endswith(p)
EndsWith(s, p) == Len(s) >= Len(p) /\ SubSeq(s, Len(s) - Len(p) + 1, Len(s)) = p

\* Number of whitespace characters s starts with, counted from position i.
RECURSIVE LeadingBlanks(_, _)
LeadingBlanks(s, i) ==
    IF i > Len(s) \/ s[i] \notin Whitespace THEN i - 1 ELSE LeadingBlanks(s, i + 1)

\* Position of the last character of s that is no whitespace, 0 when none is,
\* searched downwards from position i.
RECURSIVE LastSolid(_, _)
LastSolid(s, i) ==
    IF i = 0 \/ s[i] \notin Whitespace THEN i ELSE LastSolid(s, i - 1)

\* s.strip(): drops the leading and the trailing run of whitespace.
Strip(s) == SubSeq(s, LeadingBlanks(s, 1) + 1, LastSolid(s, Len(s)))

\* Position of the first c in s at or after position i, 0 when there is none.
RECURSIVE Find(_, _, _)
Find(s, c, i) ==
    IF i > Len(s) THEN 0 ELSE IF s[i] = c THEN i ELSE Find(s, c, i + 1)

\* s.split(c) for a one-character separator: always at least one piece.
RECURSIVE Split(_, _)
Split(s, c) ==
    LET k == Find(s, c, 1)
    IN  IF k = 0 THEN <<s>>
        ELSE <<SubSeq(s, 1, k - 1)>> \o Split(SubSeq(s, k + 1, Len(s)), c)

\* c.join(parts)
RECURSIVE Join(_, _)
Join(parts, c) ==
    IF Len(parts) = 0 THEN <<>>
    ELSE IF Len(parts) = 1 THEN parts[1]
    ELSE parts[1] \o <<c>> \o Join(Tail(parts), c)

\* parts[:n]
Take(parts, n) == SubSeq(parts, 1, IF Len(parts) < n THEN Len(parts) ELSE n)

\* s.replace(old, new): every non-overlapping occurrence, left to right.
RECURSIVE Replace(_, _, _)
Replace(s, old, new) ==
    IF Len(s) < Len(old) THEN s
    ELSE IF StartsWith(s, old)
         THEN new \o Replace(SubSeq(s, Len(old) + 1, Len(s)), old, new)
         ELSE <<s[1]>> \o Replace(Tail(s), old, new)

\* s.rsplit(c, 1)[0]: what precedes the last c, all of s when there is none.
RSplitHead(s, c) ==
    LET cuts == {i \in 1..Len(s) : s[i] = c}
    IN  IF cuts = {} THEN s
        ELSE SubSeq(s, 1, (CHOOSE i \in cuts : \A j \in cuts : j <= i) - 1)

\* list.index(x): the first position (0-based) of x, -1 standing for ValueError.
IndexOf(list, x) ==
    LET hits == {i \in 1..Len(list) : list[i] = x}
    IN  IF hits = {} THEN -1
        ELSE (CHOOSE i \in hits : \A j \in hits : i <= j) - 1


(***************************************************************************)
(* Numbers: int(str) and the "%.2f" rendering of a float.                  *)
(***************************************************************************)

\* The digits of a natural number, most significant first.
RECURSIVE Dec(_)
Dec(n) == IF n < 10 THEN <<Digits[n + 1]>> ELSE Dec(n \div 10) \o <<Digits[(n % 10) + 1]>>

\* Value of a string of digits and underscores (underscores carry no value).
RECURSIVE DigitsVal(_)
DigitsVal(s) ==
    IF Len(s) = 0 THEN 0
    ELSE IF Last(s) = "_" THEN DigitsVal(Front(s))
    ELSE 10 * DigitsVal(Front(s)) + DigitVal(Last(s))

\* int(s): surrounding whitespace is dropped, one sign is allowed, then digits,
\* where single underscores may stand between digits.  ok = FALSE stands for
\* the ValueError int() raises on anything else.
ParseInt(s) ==
    LET t    == Strip(s)
        sgn  == Len(t) > 0 /\ t[1] \in {"+", "-"}
        body == IF sgn THEN Tail(t) ELSE t
        good == /\ Len(body) > 0
                /\ \A i \in 1..Len(body) : IsDigit(body[i]) \/ body[i] = "_"
                /\ IsDigit(body[1]) /\ IsDigit(Last(body))
                /\ \A i \in 1..(Len(body) - 1) : ~(body[i] = "_" /\ body[i + 1] = "_")
    IN  IF good
        THEN [ok |-> TRUE,
              val |-> IF sgn /\ t[1] = "-" THEN 0 - DigitsVal(body) ELSE DigitsVal(body)]
        ELSE [ok |-> FALSE, val |-> 0]

Abs(n) == IF n < 0 THEN 0 - n ELSE n

\* Round num/den (num >= 0, den > 0) to the nearest integer, ties to even: the
\* rounding of "%.2f".  The float quotient is the exact quotient correctly
\* rounded, so it lies on the exact quotient's side of every tie.
RoundHalfEven(num, den) ==
    LET q == num \div den
        r == num % den
    IN  IF 2 * r > den THEN q + 1
        ELSE IF 2 * r < den THEN q
        ELSE IF q % 2 = 0 THEN q ELSE q + 1

\* f"{x:.2f}" for x = num/den, den # 0.  The sign of a float survives rounding
\* to zero, and 0/den for den < 0 is the float -0.0.
FormatFixed2(num, den) ==
    LET neg == (num < 0 /\ den > 0) \/ (num >= 0 /\ den < 0)
        h   == RoundHalfEven(100 * Abs(num), Abs(den))
    IN  (IF neg THEN <<"-">> ELSE <<>>)
        \o Dec(h \div 100) \o <<".">> \o <<Digits[((h % 100) \div 10) + 1]>>
        \o <<Digits[(h % 10) + 1]>>


(***************************************************************************)
(* Strings of the two programs.                                            *)
(***************************************************************************)

DotVcf == <<".", "v", "c", "f">>
DotTab == <<".", "t", "a", "b">>
FreqTab == <<"_", "f", "r", "e", "q", ".", "t", "a", "b">>
HashHash == <<"#", "#">>
HashChrom == <<"#", "C", "H", "R", "O", "M">>
AD == <<"A", "D">>
DP == <<"D", "P">>

\* Zero-based positions of the FORMAT and the sample column.
FormatCol == 8
SampleCol == 9

\* "for line in f": the stored line with its newline.
ReadLine(stored) == stored \o <<NL>>

\* f.write(text) for a text that ends in its only newline: one more stored line.
WriteLine(content, text) == Append(content, Front(text))

(***************************************************************************)
(* The loop bodies.                                                        *)
(***************************************************************************)

\* The header test widened to every line that starts with '#'.
ExtractLine_Hash(line) ==
    IF StartsWith(line, <<"#">>)
    THEN [write |-> FALSE, text |-> <<>>]
    ELSE [write |-> TRUE, text |-> Join(Take(Split(Strip(line), TAB), 2), TAB) \o <<NL>>]

\* One pass of the loop of extract_vcf_info over `line`: what it writes, if
\* anything.  Both branches after the "##" test write the same expression.
ExtractLine(line) ==
    IF StartsWith(line, HashHash)
    THEN [write |-> FALSE, text |-> <<>>]
    ELSE IF StartsWith(line, HashChrom)
         THEN [write |-> TRUE, text |-> Join(Take(Split(Strip(line), TAB), 2), TAB) \o <<NL>>]
         ELSE LET parts == Split(Strip(line), TAB)
              IN  [write |-> TRUE, text |-> Join(Take(parts, 2), TAB) \o <<NL>>]

\* The frequency taken from the reference count.
FreqText_Ref(ref_count, alt_count, total_depth) ==
    FormatFixed2(100 * ref_count, total_depth) \o <<"%">>

\* The appended column: freq = (100 * alt_count) / total_depth, then
\* f"{freq:.2f}%".  ref_count is unpacked but not used.
FreqText(ref_count, alt_count, total_depth) ==
    FormatFixed2(100 * alt_count, total_depth) \o <<"%">>

\* The try block of compute_allele_frequency for one line, given the two
\* lists read before it: the record it writes (raised = "none"), or the
\* exception that leaves it.
TryBlock(line, info_fields, info_values) ==
    LET ad_index   == IndexOf(info_fields, AD)
        dp_index   == IndexOf(info_fields, DP)
        raises(e)  == [raised |-> e, guarded |-> TRUE, text |-> <<>>]
    IN  IF ad_index < 0 \/ dp_index < 0 THEN raises("ValueError")
        ELSE IF ad_index >= Len(info_values) THEN raises("IndexError")
        ELSE LET counts == Split(info_values[ad_index + 1], ",")
             IN  IF Len(counts) # 2 THEN raises("ValueError")
                 ELSE LET ref_count == ParseInt(counts[1])
                          alt_count == ParseInt(counts[2])
                      IN  IF ~ref_count.ok \/ ~alt_count.ok THEN raises("ValueError")
                          ELSE IF dp_index >= Len(info_values) THEN raises("IndexError")
                          ELSE LET total_depth == ParseInt(info_values[dp_index + 1])
                               IN  IF ~total_depth.ok THEN raises("ValueError")
                                   ELSE IF total_depth.val = 0
                                   THEN raises("ZeroDivisionError")
                                   ELSE [raised |-> "none", guarded |-> TRUE,
                                         text |-> Strip(line) \o <<TAB>>
                                                  \o FreqText(ref_count.val, alt_count.val,
                                                              total_depth.val)
                                                  \o <<NL>>]

\* One pass of the loop of compute_allele_frequency over `line`.  The two
\* column reads stand before the try (guarded = FALSE): no except clause
\* covers an IndexError raised there.
CalcLine(line) ==
    LET fields == Split(Strip(line), TAB)
    IN  IF Len(fields) <= FormatCol \/ Len(fields) <= SampleCol
        THEN [raised |-> "IndexError", guarded |-> FALSE, text |-> <<>>]
        ELSE TryBlock(line, Split(fields[FormatCol + 1], ":"),
                      Split(fields[SampleCol + 1], ":"))

\* A handler that catches every exception, and one that names ValueError only.
Caught_Any(exception) == TRUE
Caught_ValueOnly(exception) == exception = "ValueError"

\* except (ValueError, IndexError)
Caught(exception) == exception \in {"ValueError", "IndexError"}

\* The exception is raised inside the try block and the except clause names it.
Recovered(r) == r.raised # "none" /\ r.guarded /\ Caught(r.raised)

\* The exception leaves compute_allele_frequency.
Propagates(r) == r.raised # "none" /\ ~(r.guarded /\ Caught(r.raised))

(***************************************************************************)
(* Bounds, and the inputs the runs are started on.                         *)
(***************************************************************************)

\* Most lines of an input file.
MaxLines == 2
\* Largest alternate count and largest total depth of the generated samples.
MaxAlt == 1
MaxDepth == 2

\* Every sequence over S of at most n elements.
SeqsUpTo(S, n) == UNION {[1..k -> S] : k \in 0..n}

\* Every order in which a directory enumeration can return the names of S.
Orders(S) == {p \in [1..Cardinality(S) -> S] : \A i, j \in 1..Cardinality(S) : p[i] = p[j] => i = j}

\* The decimal text of an integer.
IntStr(n) == IF n < 0 THEN <<"-">> \o Dec(0 - n) ELSE Dec(n)

GT_AD_DP == <<"G", "T", ":", "A", "D", ":", "D", "P">>
DP_GT_AD == <<"D", "P", ":", "G", "T", ":", "A", "D">>
Genotype == <<"0", "/", "1">>

\* The sample text of FORMAT GT:AD:DP for reference count r, alternate count a
\* and total depth d.
Sample(r, a, d) == Join(<<Genotype, Join(<<IntStr(r), IntStr(a)>>, ","), IntStr(d)>>, ":")

\* The first eight columns of a variant row (CHROM .. INFO), CHROM being f0.
Leading(f0) == <<f0, <<"7">>, <<".">>, <<"A">>, <<"G">>, <<".">>, <<".">>, <<".">>>>

\* A stored row: eight leading columns, FORMAT, sample, and further columns.
Row(f0, format, sample, more) == Join(Leading(f0) \o <<format, sample>> \o more, TAB)

Counts == ((0..MaxAlt) \X (0..MaxDepth)) \cup {<<10, 40>>, <<1, 32>>, <<0 - 1, 3>>}

\* Rows of FORMAT GT:AD:DP with integer counts (a total depth of 0 included).
CountRows ==
    {Row(<<"c">>, GT_AD_DP, Sample(30, p[1], p[2]), <<>>) : p \in Counts}
    \cup {Row(<<"c">>, GT_AD_DP, Sample(0, 10, 40), <<>>),
          Row(<<"c">>, DP_GT_AD, <<"4", "0", ":", "0", "/", "1", ":", "3", "0", ",", "1", "0">>, <<>>)}

\* Rows whose first or last columns are empty or padded with blanks.
PaddedRows ==
    {Row(<<"c">>, GT_AD_DP, Sample(30, 10, 40), <<<<>>>>),
     Row(<<"c">>, GT_AD_DP, Sample(30, 10, 40), <<<<"z">>>>),
     Row(<<SP, "c">>, GT_AD_DP, Sample(30, 10, 40), <<>>),
     Row(<<>>, GT_AD_DP, Sample(30, 10, 40), <<>>),
     Join(<<<<>>>> \o Leading(<<"c">>) \o <<GT_AD_DP, Sample(30, 10, 40)>>, TAB)}

\* Rows of ten columns or more that the try block cannot parse.
MalformedRows ==
    {Row(<<"c">>, <<"G", "T", ":", "A", "D">>, <<"0", "/", "1", ":", "3", "0", ",", "1", "0">>, <<>>),
     Row(<<"c">>, <<"G", "T", ":", "D", "P">>, <<"0", "/", "1", ":", "4", "0">>, <<>>),
     Row(<<"c">>, GT_AD_DP, <<"0", "/", "1">>, <<>>),
     Row(<<"c">>, GT_AD_DP, <<"0", "/", "1", ":", "3", "0", ",", "1", "0">>, <<>>),
     Row(<<"c">>, GT_AD_DP, <<"0", "/", "1", ":", "3", "0", ":", "4", "0">>, <<>>),
     Row(<<"c">>, GT_AD_DP, <<"0", "/", "1", ":", "1", ",", "2", ",", "3", ":", "4", "0">>, <<>>),
     Row(<<"c">>, GT_AD_DP, <<"0", "/", "1", ":", "3", "0", ",", "1", "0", ":", "x">>, <<>>),
     Row(<<"c">>, GT_AD_DP, <<"0", "/", "1", ":", "x", ",", "1", "0", ":", "0">>, <<>>)}

\* Rows of fewer than ten columns.
ShortRows ==
    {<<>>, Join(Leading(<<"c">>) \o <<GT_AD_DP>>, TAB)}

CalcRows == CountRows \cup PaddedRows \cup MalformedRows \cup ShortRows

VcfRows ==
    {<<"#", "#", "f", "i", "l", "e", "f", "o", "r", "m", "a", "t">>, <<"#", "#">>, <<"#", "C", "H", "R", "O", "M", TAB, "P", "O", "S", TAB, "I", "D">>, <<"#", "C", "H", "R", "O", "M">>,
     <<"c", "h", "r", "1", TAB, "5", TAB, "A">>, <<"c", TAB, "5">>, <<"c">>, <<>>,
     <<SP, "c", TAB, "5", TAB, "A">>, <<TAB, "5", TAB, "A">>, <<"c", TAB, "5", SP>>, <<"c", TAB, TAB, "A">>, <<"c", TAB>>, <<SP, "#", "#", "x">>}

AVcf == <<"a", ".", "v", "c", "f">>
BVcf == <<"b", ".", "v", "c", "f">>
AVcfVcf == <<"a", ".", "v", "c", "f", ".", "v", "c", "f">>
XTab == <<"x", ".", "t", "a", "b">>
XFreqTab == <<"x", "_", "f", "r", "e", "q", ".", "t", "a", "b">>
Notes == <<"n", "o", "t", "e", "s", ".", "t", "x", "t">>
HiddenTab == <<".", "t", "a", "b">>


(***************************************************************************)
(* State.                                                                  *)
(*   fs       the working directory: file name -> stored lines             *)
(*   plan     the programs the operator still has to start, in order       *)
(*   prog     the program started last: "none", "extract" or "calc"        *)
(*   status   "idle" (nothing started), "loop" (the driver is between two  *)
(*            files), "file" (inside the per-file function, both files     *)
(*            open), "done" (the program ended), "fault" (the program was  *)
(*            ended by an exception nothing caught)                        *)
(*   listing  the names the directory enumeration returned to the driver   *)
(*   idx      position of the driver's loop in listing (1-based)           *)
(*   inPath, outPath   the arguments of the per-file function              *)
(*   pos      lines of the input consumed by the per-file loop             *)
(*   console  standard output, one record per print                        *)
(*   start_fs the directory as it was when the program was started         *)
(***************************************************************************)
VARIABLES fs, plan, prog, status, listing, idx, inPath, outPath, pos, console, start_fs

vars == <<fs, plan, prog, status, listing, idx, inPath, outPath, pos, console, start_fs>>

\* directory_path of the extractor.
directory_path == <<".">>

\* os.path.join(dir, name) for a relative name.
PathJoin(dir, name) == dir \o <<"/">> \o name

\* The directory entry a relative path opens: leading "./" steps change nothing.
RECURSIVE FileOf(_)
FileOf(path) == IF StartsWith(path, <<".", "/">>) THEN FileOf(SubSeq(path, 3, Len(path))) ELSE path

\* glob.glob('*.tab'): the names that end in ".tab" and do not start with a dot.
GlobTab(names) == {n \in names : EndsWith(n, DotTab) /\ n[1] # "."}

\* The output name the extractor driver derives from a directory entry.
ExtractOutputName(filename) == Replace(filename, DotVcf, DotTab)

\* The output name main derives from a listed file.
FreqOutputName(tab_file) == RSplitHead(tab_file, ".") \o FreqTab

\* open(path, 'w'): the file is created, or emptied when it exists.
OpenForWrite(dir, path) == (FileOf(path) :> <<>>) @@ dir

\* The write of one text to the open output file.
WriteTo(dir, path, text) == [dir EXCEPT ![FileOf(path)] = WriteLine(dir[FileOf(path)], text)]

Progress(in, out) == [kind |-> "progress", text |-> in, file |-> out, count |-> 0]
Diagnostic(text, file) == [kind |-> "error", text |-> text, file |-> file, count |-> 0]
Summary(n) == [kind |-> "summary", text |-> <<>>, file |-> <<>>, count |-> n]

\* The line the per-file loop reads next.
CurrentLine == ReadLine(fs[FileOf(inPath)][pos + 1])

AtLine == status = "file" /\ pos < Len(fs[FileOf(inPath)])

AtEndOfFile == status = "file" /\ pos = Len(fs[FileOf(inPath)])

Started(p) ==
    /\ status \in {"idle", "done"}
    /\ plan # <<>> /\ Head(plan) = p
    /\ plan' = Tail(plan)
    /\ prog' = p
    /\ start_fs' = fs

(***************************************************************************)
(* The extractor: 02_python_script_used_to_convert_vcf_to_tab.py           *)
(***************************************************************************)

\* The script starts: os.listdir returns the entries in some order.
ExMain ==
    /\ Started("extract")
    /\ listing' \in Orders(DOMAIN fs)
    /\ idx' = 1
    /\ status' = "loop"
    /\ UNCHANGED <<fs, inPath, outPath, pos, console>>

\* An entry that does not end in ".vcf" is passed over.
ExSkipEntry ==
    /\ prog = "extract" /\ status = "loop" /\ idx <= Len(listing)
    /\ ~EndsWith(listing[idx], DotVcf)
    /\ idx' = idx + 1
    /\ UNCHANGED <<fs, plan, prog, status, listing, inPath, outPath, pos, console, start_fs>>

\* An entry that ends in ".vcf": extract_vcf_info is called and opens both files.
ExOpen ==
    /\ prog = "extract" /\ status = "loop" /\ idx <= Len(listing)
    /\ EndsWith(listing[idx], DotVcf)
    /\ inPath' = PathJoin(directory_path, listing[idx])
    /\ outPath' = PathJoin(directory_path, ExtractOutputName(listing[idx]))
    /\ fs' = OpenForWrite(fs, outPath')
    /\ pos' = 0
    /\ status' = "file"
    /\ UNCHANGED <<plan, prog, listing, idx, console, start_fs>>

\* One line of the input file.
ExLine ==
    /\ prog = "extract" /\ AtLine
    /\ LET r == ExtractLine(CurrentLine)
       IN  fs' = IF r.write THEN WriteTo(fs, outPath, r.text) ELSE fs
    /\ pos' = pos + 1
    /\ UNCHANGED <<plan, prog, status, listing, idx, inPath, outPath, console, start_fs>>

\* End of the input file: both files are closed and the driver prints its
\* progress line.
ExClose ==
    /\ prog = "extract" /\ AtEndOfFile
    /\ console' = Append(console, Progress(inPath, outPath))
    /\ idx' = idx + 1
    /\ status' = "loop"
    /\ UNCHANGED <<fs, plan, prog, listing, inPath, outPath, pos, start_fs>>

\* The enumeration is exhausted: the script ends; it prints nothing more.
ExEnd ==
    /\ prog = "extract" /\ status = "loop" /\ idx > Len(listing)
    /\ status' = "done"
    /\ UNCHANGED <<fs, plan, prog, listing, idx, inPath, outPath, pos, console, start_fs>>

(***************************************************************************)
(* The calculator:                                                         *)
(* 02_python_script_used_to_calculate_allele_freq_fromtabfiles.py          *)
(***************************************************************************)

\* main starts: glob returns the matching names in some order.
CalcMain ==
    /\ Started("calc")
    /\ listing' \in Orders(GlobTab(DOMAIN fs))
    /\ idx' = 1
    /\ status' = "loop"
    /\ UNCHANGED <<fs, inPath, outPath, pos, console>>

\* The next listed file: compute_allele_frequency is called and opens both files.
CalcOpen ==
    /\ prog = "calc" /\ status = "loop" /\ idx <= Len(listing)
    /\ inPath' = listing[idx]
    /\ outPath' = FreqOutputName(listing[idx])
    /\ fs' = OpenForWrite(fs, outPath')
    /\ pos' = 0
    /\ status' = "file"
    /\ UNCHANGED <<plan, prog, listing, idx, console, start_fs>>

\* A line the try block processes to its end: the record is written.
CalcWrite ==
    /\ prog = "calc" /\ AtLine
    /\ LET r == CalcLine(CurrentLine)
       IN  r.raised = "none" /\ fs' = WriteTo(fs, outPath, r.text)
    /\ pos' = pos + 1
    /\ UNCHANGED <<plan, prog, status, listing, idx, inPath, outPath, console, start_fs>>

\* A line whose ValueError or IndexError the except clause catches: the
\* diagnostic is printed and the loop goes on.
CalcSkip ==
    /\ prog = "calc" /\ AtLine
    /\ Recovered(CalcLine(CurrentLine))
    /\ console' = Append(console, Diagnostic(Strip(CurrentLine), inPath))
    /\ pos' = pos + 1
    /\ UNCHANGED <<fs, plan, prog, status, listing, idx, inPath, outPath, start_fs>>

\* A line that raises outside the try block, or raises what the except clause
\* does not name: the exception leaves compute_allele_frequency (the with
\* statement closes both files, what was written stays) and main, and ends
\* the program.
CalcFault ==
    /\ prog = "calc" /\ AtLine
    /\ Propagates(CalcLine(CurrentLine))
    /\ status' = "fault"
    /\ UNCHANGED <<fs, plan, prog, listing, idx, inPath, outPath, pos, console, start_fs>>

\* End of the input file: both files are closed, back to the loop of main.
CalcClose ==
    /\ prog = "calc" /\ AtEndOfFile
    /\ idx' = idx + 1
    /\ status' = "loop"
    /\ UNCHANGED <<fs, plan, prog, listing, inPath, outPath, pos, console, start_fs>>

\* The list is exhausted: main prints the number of listed files and returns.
CalcEnd ==
    /\ prog = "calc" /\ status = "loop" /\ idx > Len(listing)
    /\ console' = Append(console, Summary(Len(listing)))
    /\ status' = "done"
    /\ UNCHANGED <<fs, plan, prog, listing, idx, inPath, outPath, pos, start_fs>>

(***************************************************************************)
(* Specifications.                                                         *)
(***************************************************************************)

InitWith(dirs, programs) ==
    /\ fs \in dirs
    /\ plan = programs
    /\ prog = "none"
    /\ status = "idle"
    /\ listing = <<>>
    /\ idx = 1
    /\ inPath = <<>>
    /\ outPath = <<>>
    /\ pos = 0
    /\ console = <<>>
    /\ start_fs = fs

\* One calculator run over a directory that holds one .tab file.
CalcDirs == {(XTab :> c) @@ (HiddenTab :> <<>>) : c \in SeqsUpTo(CalcRows, MaxLines)}

\* One extractor run over a directory that holds one .vcf file and a text file.
ExtractDirs ==
    {(n :> c) @@ (Notes :> <<>>) : n \in {AVcf, AVcfVcf}, c \in SeqsUpTo(VcfRows, MaxLines)}

\* Extractor, then calculator, over a directory of .vcf and .tab files.
PipeVcfContents == {<<>>, <<<<"#", "#", "f", "i", "l", "e", "f", "o", "r", "m", "a", "t">>, <<"c", "h", "r", "1", TAB, "5", TAB, "A">>>>}
PipeTabContents ==
    {<<>>,
     <<Row(<<"c">>, GT_AD_DP, Sample(30, 10, 40), <<>>)>>,
     <<Row(<<"c">>, <<"G", "T", ":", "A", "D">>, <<"0", "/", "1", ":", "3", "0", ",", "1", "0">>, <<>>)>>}

ContentsFor(n) == IF EndsWith(n, DotVcf) THEN PipeVcfContents ELSE PipeTabContents

PipeDirs ==
    UNION {{d \in [names -> PipeVcfContents \cup PipeTabContents] :
               \A n \in names : d[n] \in ContentsFor(n)} :
           names \in SUBSET {AVcf, BVcf, XTab, XFreqTab}}

NextCalc == CalcMain \/ CalcOpen \/ CalcWrite \/ CalcSkip \/ CalcFault \/ CalcClose \/ CalcEnd

NextExtract == ExMain \/ ExSkipEntry \/ ExOpen \/ ExLine \/ ExClose \/ ExEnd

Spec == InitWith(CalcDirs, <<"calc">>) /\ [][NextCalc]_vars

SpecExtract == InitWith(ExtractDirs, <<"extract">>) /\ [][NextExtract]_vars

SpecPipe == InitWith(PipeDirs, <<"extract", "calc">>) /\ [][NextExtract \/ NextCalc]_vars


(***************************************************************************)
(* Properties of the calculator, checked under Spec.                       *)
(*                                                                         *)
(* The cases are described from the text of the row, without the           *)
(* calculator's own parser: a count is an integer when it is a decimal     *)
(* numeral, and the value of a numeral is found by printing candidates.    *)
(* The columns of a row are those compute_allele_frequency splits it into. *)
(***************************************************************************)

\* The stored row the calculator is about to read, and its output so far.
Row0 == fs[FileOf(inPath)][pos + 1]
Out0 == fs[FileOf(outPath)]

Columns(stored) == Split(Strip(ReadLine(stored)), TAB)

\* An optional minus sign and at least one digit.
IsNumeral(t) ==
    LET b == IF Len(t) > 0 /\ t[1] = "-" THEN Tail(t) ELSE t
    IN  Len(b) > 0 /\ \A i \in 1..Len(b) : IsDigit(b[i])

\* The integers the generated rows mention.
CountValues == ((0 - 1)..(MaxAlt + 1)) \cup {7, 10, 30}
DepthValues == (0..(MaxDepth + 1)) \cup {32, 40}

\* What the text of a row says: its number of columns, the names of FORMAT,
\* the values of the sample, and the one-based positions of AD and DP in
\* FORMAT (0: absent).
Reading(stored) ==
    LET cols == Columns(stored)
    IN  IF Len(cols) < 10
        THEN [n |-> Len(cols), names |-> <<>>, values |-> <<>>, ad |-> 0, dp |-> 0]
        ELSE LET names == Split(cols[FormatCol + 1], ":")
             IN  [n |-> Len(cols), names |-> names,
                  values |-> Split(cols[SampleCol + 1], ":"),
                  ad |-> IndexOf(names, AD) + 1, dp |-> IndexOf(names, DP) + 1]

\* FORMAT names AD and DP and the sample has a value at both positions.
BothValues(rd) ==
    /\ rd.n >= 10
    /\ rd.ad > 0 /\ rd.dp > 0
    /\ rd.ad <= Len(rd.values) /\ rd.dp <= Len(rd.values)

\* The AD value is exactly two comma-separated integers, the DP value one.
WellFormedReading(rd) ==
    /\ BothValues(rd)
    /\ LET pair == Split(rd.values[rd.ad], ",")
       IN  Len(pair) = 2 /\ IsNumeral(pair[1]) /\ IsNumeral(pair[2])
    /\ IsNumeral(rd.values[rd.dp])

\* The row holds AD = "r,a" and DP = "d".
Holds(stored, r, a, d) ==
    LET rd == Reading(stored)
    IN  /\ BothValues(rd)
        /\ rd.values[rd.ad] = IntStr(r) \o <<",">> \o IntStr(a)
        /\ rd.values[rd.dp] = IntStr(d)

\* A well-formed row whose DP is 0.
ZeroDepth(stored) ==
    LET rd == Reading(stored)
    IN  WellFormedReading(rd) /\ \A i \in 1..Len(rd.values[rd.dp]) :
                                     rd.values[rd.dp][i] \in {"-", "0"}

\* A row of the recognized per-line failures.
Malformed(stored) ==
    LET rd == Reading(stored)
    IN  rd.n >= 10 /\ ~WellFormedReading(rd)

CalcAtRow == prog = "calc" /\ AtLine

\* The step skipped the row: nothing written, one diagnostic naming the row
\* and the file, and the loop is at the next row.
SkippedWithDiagnostic ==
    /\ fs' = fs
    /\ console' = Append(console, [kind |-> "error", text |-> Strip(ReadLine(Row0)),
                                   file |-> inPath, count |-> 0])
    /\ pos' = pos + 1
    /\ status' = "file"

\* C1: a row of fewer than 10 tab-separated fields (an empty line included)
\* is skipped with one diagnostic and the loop goes on to the next row; it
\* never ends the file or the run.
C1_ShortRowSkipped ==
    [][(CalcAtRow /\ Len(Split(Row0, TAB)) < 10) => SkippedWithDiagnostic]_vars

\* C2: every record written is the input row verbatim (without its line
\* terminator) followed by exactly one more column, so that every column of
\* the row, empty leading and trailing ones included, keeps its position.
C2_RowVerbatim ==
    [][(CalcAtRow /\ fs' # fs) =>
          LET rec == Last(fs'[FileOf(outPath)])
          IN  /\ fs' = [fs EXCEPT ![FileOf(outPath)] = Append(Out0, rec)]
              /\ StartsWith(rec, Row0 \o <<TAB>>)
              /\ TAB \notin Range(SubSeq(rec, Len(Row0) + 2, Len(rec)))]_vars

\* Two decimals of h hundredths.
Hundredths(h) == Dec(h \div 100) \o <<".">> \o Dec((h % 100) \div 10) \o Dec(h % 10)

\* text renders 100*a/d (d > 0) with two decimal places and a '%': it is a
\* multiple of 0.01 within 0.005 of the value, with the sign of a.
Renders(text, a, d) ==
    LET n == 10000 * Abs(a)
    IN  \E h \in {n \div d, (n \div d) + 1} :
            /\ 2 * Abs(h * d - n) <= d
            /\ text = (IF a < 0 THEN <<"-">> ELSE <<>>) \o Hundredths(h) \o <<"%">>

ExampleRow == Row(<<"c">>, GT_AD_DP, Sample(30, 10, 40), <<>>)

C4_ZeroDepthEndsFile ==
    [][/\ (CalcAtRow /\ ZeroDepth(Row0)) =>
              (status' = "fault" /\ fs' = fs /\ console' = console /\ pos' = pos)
       /\ status = "fault" => FALSE]_vars

\* The run was ended by a zero depth in the second row, after one record.
C4_Witness ==
    /\ prog = "calc" /\ status = "fault" /\ pos = 1
    /\ ZeroDepth(Row0)
    /\ Len(Out0) = 1

\* Of the rows read so far, those that are well-formed with a depth other than 0.
Successful(rows) ==
    SelectSeq(rows, LAMBDA stored : WellFormedReading(Reading(stored)) /\ ~ZeroDepth(stored))

ExAtRow == prog = "extract" /\ AtLine

\* C6: for a row that does not start with '##' and has at least two
\* tab-separated fields, the line written is field 0, a tab and field 1,
\* both character for character as in the input (empty or blank-padded
\* fields included), and no other field.
C6_FieldsVerbatim ==
    [][(ExAtRow /\ ~StartsWith(Row0, HashHash) /\ Len(Split(Row0, TAB)) >= 2) =>
          fs' = [fs EXCEPT ![FileOf(outPath)] =
                    Append(Out0, Split(Row0, TAB)[1] \o <<TAB>> \o Split(Row0, TAB)[2])]]_vars

\* C7: the file written for an entry that ends in '.vcf' is the entry with
\* only that trailing '.vcf' replaced by '.tab'.
C7_SuffixOnly ==
    (prog = "extract" /\ status = "file") =>
        FileOf(outPath) = SubSeq(FileOf(inPath), 1, Len(FileOf(inPath)) - 4) \o DotTab

\* Number of the first n rows that do not start with '##'.
Retained(rows, n) == Cardinality({i \in 1..n : ~StartsWith(rows[i], HashHash)})

\* C9: a row that starts with '##' gets no output line, every other row (the
\* '#CHROM' row, variant rows, short and empty rows) exactly one, appended
\* after the lines of the rows before it.
C9_HeaderRowsSkipped ==
    /\ [][ExAtRow =>
            /\ pos' = pos + 1 /\ status' = "file"
            /\ IF StartsWith(Row0, HashHash)
               THEN fs' = fs
               ELSE \E text \in {Last(fs'[FileOf(outPath)])} :
                       fs' = [fs EXCEPT ![FileOf(outPath)] = Append(Out0, text)]]_vars
    /\ [](prog = "extract" /\ status = "file" =>
            Len(Out0) = Retained(fs[FileOf(inPath)], pos))

\* A file of a '##' row and the '#CHROM' row was read to its end: one line stands.
C9_Witness ==
    /\ prog = "extract" /\ status = "loop" /\ pos = 2
    /\ StartsWith(fs[FileOf(inPath)][1], HashHash)
    /\ StartsWith(fs[FileOf(inPath)][2], HashChrom)
    /\ Len(Out0) = 1

(***************************************************************************)
(* Properties of the two drivers, checked under SpecPipe.                  *)
(***************************************************************************)

Reported(n) ==
    /\ Len(console) > 0
    /\ Last(console).kind = "summary"
    /\ Last(console).count = n

\* C8: the extractor run ends by reporting the number of .vcf files it
\* processed, and the calculator run started after it on the .tab files
\* then present runs to completion and ends by reporting their number.
C8_SummaryCounts ==
    /\ (prog = "extract" /\ status = "done") =>
           Reported(Cardinality({n \in DOMAIN start_fs : EndsWith(n, DotVcf)}))
    /\ prog = "calc" =>
           /\ status # "fault"
           /\ status = "done" => Reported(Cardinality(GlobTab(DOMAIN start_fs)))

\* The output of compute_allele_frequency for an input it reads to its end.
RECURSIVE CalcFile(_)
CalcFile(rows) ==
    IF rows = <<>> THEN <<>>
    ELSE LET r == CalcLine(ReadLine(Last(rows)))
         IN  IF r.raised = "none" THEN WriteLine(CalcFile(Front(rows)), r.text)
             ELSE CalcFile(Front(rows))

\* C10: no file the calculator run writes is one of its inputs, so that when
\* the run has ended every output file is what its own input, as it was when
\* main started, yields, whatever the order of the listing (also when both
\* x.tab and x_freq.tab are present).
C10_PairsIndependent ==
    (prog = "calc" /\ status = "done") =>
        \A i \in 1..Len(listing) :
            fs[FreqOutputName(listing[i])] = CalcFile(start_fs[listing[i]])

====
